---- MODULE Spec2Model ----
(***************************************************************************)
(* Model of src/main.py: the questbook markup parser                       *)
(* (Article.parse_questbook_string) and the alignment walk (get_diff).     *)
(*                                                                         *)
(* A Python str is a sequence of one-character strings, so that indexing,  *)
(* splitting and regular-expression scanning are computed, not assumed.    *)
(***************************************************************************)
EXTENDS Integers, Sequences, FiniteSets, TLC

\* ------------------------------------------------------------------------
\* Bounds of the checked instances
\* ------------------------------------------------------------------------
MaxRawLen == 5
MaxArticleLen == 3
MaxBaseLen == 3
MaxPlainLen == 1

\* Characters the raw strings are drawn from: both lead characters, a colour
\* code, the reset code, a modifier code that is also the line-break letter,
\* a character valid after neither lead, and the line feed (which the regex
\* dot does not match).
Alphabet == {"%", "n", "§", "a", "r", "x", "\n"}

\* Characters of appended plain text: no lead character.
PlainChars == {"n", "a", "r", "x"}

RECURSIVE StrUpTo(_)
StrUpTo(n) ==
    IF n = 0 THEN {<<>>}
    ELSE StrUpTo(n - 1) \cup [1..n -> Alphabet]

RECURSIVE PlainUpTo(_)
PlainUpTo(n) ==
    IF n = 0 THEN {}
    ELSE PlainUpTo(n - 1) \cup [1..n -> PlainChars]

\* ------------------------------------------------------------------------
\* Style model
\* ------------------------------------------------------------------------
STYLE_CODES ==
    <<"0", "1", "2", "3", "4", "5", "6", "7", "8", "9",
      "a", "b", "c", "d", "e", "f",
      "ENDLINE", "k", "l", "m", "n", "o", "r">>

\* `x in STYLE_CODES`
InStyleCodes(x) == \E i \in DOMAIN STYLE_CODES : STYLE_CODES[i] = x

\* The character class [0-9a-fr] of the scanning regex.
ColorClass ==
    {"0", "1", "2", "3", "4", "5", "6", "7", "8", "9",
     "a", "b", "c", "d", "e", "f", "r"}

TextEntry(color, content) == [color |-> color, content |-> content]

\* ------------------------------------------------------------------------
\* String primitives used by the parser
\* ------------------------------------------------------------------------

\* raw_article.split("%n"): leftmost, non-overlapping occurrences of the
\* two-character separator; always at least one piece.
RECURSIVE SplitFrom(_, _, _)
SplitFrom(s, i, cur) ==
    IF i > Len(s) THEN <<cur>>
    ELSE IF i < Len(s) /\ s[i] = "%" /\ s[i + 1] = "n"
         THEN <<cur>> \o SplitFrom(s, i + 2, <<>>)
         ELSE SplitFrom(s, i + 1, Append(cur, s[i]))

split(s) == SplitFrom(s, 1, <<>>)

\* The regex dot: any character except the line feed.
Dot(c) == c # "\n"

\* re.findall(lead + "(.)", line): the captured characters, scanning left to
\* right; a match consumes two characters, a failed position one.
RECURSIVE FindallLeadFrom(_, _, _)
FindallLeadFrom(lead, line, i) ==
    IF i > Len(line) THEN <<>>
    ELSE IF line[i] = lead /\ i < Len(line) /\ Dot(line[i + 1])
         THEN <<line[i + 1]>> \o FindallLeadFrom(lead, line, i + 2)
         ELSE FindallLeadFrom(lead, line, i + 1)

FindallLead(lead, line) == FindallLeadFrom(lead, line, 1)

\* End of the maximal run [^§]+ that starts at i.
RECURSIVE RunEnd(_, _)
RunEnd(line, i) ==
    IF i < Len(line) /\ line[i + 1] # "§" THEN RunEnd(line, i + 1) ELSE i

\* re.findall(r"(§[0-9a-fr])|([^§]+)", line): one tuple (g0, g1) per match.
\* `start` is the position of the match in the line (Match.start()).
RECURSIVE FindallTextFrom(_, _)
FindallTextFrom(line, i) ==
    IF i > Len(line) THEN <<>>
    ELSE IF line[i] = "§"
         THEN IF i < Len(line) /\ line[i + 1] \in ColorClass
              THEN <<[start |-> i, g0 |-> <<line[i], line[i + 1]>>, g1 |-> <<>>]>>
                   \o FindallTextFrom(line, i + 2)
              ELSE FindallTextFrom(line, i + 1)
         ELSE <<[start |-> i, g0 |-> <<>>,
                 g1 |-> SubSeq(line, i, RunEnd(line, i))]>>
              \o FindallTextFrom(line, RunEnd(line, i) + 1)

FindallText(line) == FindallTextFrom(line, 1)

\* ------------------------------------------------------------------------
\* Article.parse_questbook_string, one loop iteration at a time
\* ------------------------------------------------------------------------

PercentOk(c) == c \in {"n", "%"}

\* First captured character for which `not in ["n", "%"]` holds, <<>> if none.
RECURSIVE FirstBadPercent(_, _)
FirstBadPercent(ms, k) ==
    IF k > Len(ms) THEN <<>>
    ELSE IF ~PercentOk(ms[k]) THEN <<ms[k]>>
    ELSE FirstBadPercent(ms, k + 1)

\* First captured character for which `not in STYLE_CODES` holds.
RECURSIVE FirstBadStyle(_, _)
FirstBadStyle(ms, k) ==
    IF k > Len(ms) THEN <<>>
    ELSE IF ~InStyleCodes(ms[k]) THEN <<ms[k]>>
    ELSE FirstBadStyle(ms, k + 1)

\* The two validation loops of one line: the invalid two-character sequence
\* that raises ValueError, or <<>> when the line passes.
LineError(line) ==
    LET p == FirstBadPercent(FindallLead("%", line), 1)
        s == FirstBadStyle(FindallLead("§", line), 1)
    IN  IF p # <<>> THEN <<"%">> \o p
        ELSE IF s # <<>> THEN <<"§">> \o s
        ELSE <<>>

\* Variant: the separator appended without the `if texts` test.
AppendSentinel_Always(ts) == Append(ts, TextEntry("ENDLINE", <<"%", "n">>))

\* `if texts: texts.append(TextEntry(color="ENDLINE", content="%n"))`
AppendSentinel(ts) ==
    IF ts # <<>> THEN Append(ts, TextEntry("ENDLINE", <<"%", "n">>)) ELSE ts

\* Variant: the reset code stored as a colour instead of restoring "0".
ApplyMatch_NoReset(st, match) ==
    IF match.g0 # <<>>
    THEN [st EXCEPT !.current_color = match.g0[2]]
    ELSE [st EXCEPT !.texts = Append(st.texts,
                                     TextEntry(st.current_color, match.g1))]

\* Body of `for match in text_matches`, on the pair (current_color, texts).
ApplyMatch(st, match) ==
    IF match.g0 # <<>>
    THEN IF match.g0[2] = "r"
         THEN [st EXCEPT !.current_color = "0"]
         ELSE [st EXCEPT !.current_color = match.g0[2]]
    ELSE [st EXCEPT !.texts = Append(st.texts,
                                     TextEntry(st.current_color, match.g1))]

\* The whole function, as main() calls it: the loop over text_lines folded.
RECURSIVE ApplyMatches(_, _, _)
ApplyMatches(st, ms, k) ==
    IF k > Len(ms) THEN st
    ELSE ApplyMatches(ApplyMatch(st, ms[k]), ms, k + 1)

RECURSIVE ParseLines(_, _, _)
ParseLines(ts, lines, k) ==
    IF k > Len(lines) THEN [raised |-> FALSE, error |-> <<>>, texts |-> ts]
    ELSE IF LineError(lines[k]) # <<>>
         THEN [raised |-> TRUE, error |-> LineError(lines[k]), texts |-> <<>>]
         ELSE ParseLines(
                 ApplyMatches([current_color |-> "0", texts |-> AppendSentinel(ts)],
                              FindallText(lines[k]), 1).texts,
                 lines, k + 1)

parse_questbook_string(raw) == ParseLines(<<>>, split(raw), 1)

\* ------------------------------------------------------------------------
\* State
\* ------------------------------------------------------------------------
VARIABLES
    \* parser
    raw_article,     \* the argument of parse_questbook_string
    text_lines,      \* raw_article.split("%n")
    line_no,         \* index of `line` in text_lines (1-based)
    text_matches,    \* re.findall(...) of the current line
    match_no,        \* index of `match` in text_matches (1-based)
    current_color,
    texts,
    error,           \* the invalid sequence carried by the ValueError
    ppc,             \* "start", "line", "match", "done", "raised", "idle"
    \* main / get_diff
    en_raw,
    translation_raw,
    en_article,
    translation_article,
    en_index,
    tr_index,
    success,
    table,
    dpc              \* "parse", "main", "drain_tr", "drain_en", "done",
                     \* "raised", "idle"

pvars == <<raw_article, text_lines, line_no, text_matches, match_no,
           current_color, texts, error, ppc>>
dvars == <<en_raw, translation_raw, en_article, translation_article,
           en_index, tr_index, success, table, dpc>>
vars == <<pvars, dvars>>

line == text_lines[line_no]
match == text_matches[match_no]

\* ------------------------------------------------------------------------
\* Parser actions
\* ------------------------------------------------------------------------
ParserIdle ==
    /\ raw_article = <<>>
    /\ text_lines = <<>>
    /\ line_no = 0
    /\ text_matches = <<>>
    /\ match_no = 0
    /\ current_color = "0"
    /\ texts = <<>>
    /\ error = <<>>
    /\ ppc = "idle"

DiffIdle ==
    /\ en_raw = <<>>
    /\ translation_raw = <<>>
    /\ en_article = <<>>
    /\ translation_article = <<>>
    /\ en_index = 0
    /\ tr_index = 0
    /\ success = TRUE
    /\ table = <<>>
    /\ dpc = "idle"

\* `texts = []; text_lines = raw_article.split("%n")`
ParseStart ==
    /\ ppc = "start"
    /\ texts' = <<>>
    /\ text_lines' = split(raw_article)
    /\ line_no' = 1
    /\ ppc' = "line"
    /\ UNCHANGED <<raw_article, text_matches, match_no, current_color, error>>
    /\ UNCHANGED dvars

\* One of the validation loops finds an invalid escape: raise ValueError.
\* `texts` is a local of the aborted call, so nothing is returned.
LineRaise ==
    /\ ppc = "line"
    /\ line_no <= Len(text_lines)
    /\ LineError(line) # <<>>
    /\ error' = LineError(line)
    /\ texts' = <<>>
    /\ ppc' = "raised"
    /\ UNCHANGED <<raw_article, text_lines, line_no, text_matches, match_no,
                   current_color>>
    /\ UNCHANGED dvars

\* Variant: current_color initialised once, before the loop over the lines.
LineStart_KeepColor ==
    /\ ppc = "line"
    /\ line_no <= Len(text_lines)
    /\ LineError(line) = <<>>
    /\ texts' = AppendSentinel(texts)
    /\ current_color' = current_color
    /\ text_matches' = FindallText(line)
    /\ match_no' = 1
    /\ ppc' = "match"
    /\ UNCHANGED <<raw_article, text_lines, line_no, error>>
    /\ UNCHANGED dvars

\* The line passes validation: separator, colour reset, regex scan.
LineStart ==
    /\ ppc = "line"
    /\ line_no <= Len(text_lines)
    /\ LineError(line) = <<>>
    /\ texts' = AppendSentinel(texts)
    /\ current_color' = "0"
    /\ text_matches' = FindallText(line)
    /\ match_no' = 1
    /\ ppc' = "match"
    /\ UNCHANGED <<raw_article, text_lines, line_no, error>>
    /\ UNCHANGED dvars

\* One iteration of `for match in text_matches`.
MatchStep ==
    /\ ppc = "match"
    /\ match_no <= Len(text_matches)
    /\ LET st == ApplyMatch([current_color |-> current_color, texts |-> texts],
                            match)
       IN  /\ current_color' = st.current_color
           /\ texts' = st.texts
    /\ match_no' = match_no + 1
    /\ UNCHANGED <<raw_article, text_lines, line_no, text_matches, error, ppc>>
    /\ UNCHANGED dvars

\* text_matches is exhausted: next iteration of `for line in text_lines`.
LineEnd ==
    /\ ppc = "match"
    /\ match_no > Len(text_matches)
    /\ line_no' = line_no + 1
    /\ ppc' = "line"
    /\ UNCHANGED <<raw_article, text_lines, text_matches, match_no,
                   current_color, texts, error>>
    /\ UNCHANGED dvars

\* `return cls(texts=texts)`
ParseReturn ==
    /\ ppc = "line"
    /\ line_no > Len(text_lines)
    /\ ppc' = "done"
    /\ UNCHANGED <<raw_article, text_lines, line_no, text_matches, match_no,
                   current_color, texts, error>>
    /\ UNCHANGED dvars

ParseInit ==
    /\ raw_article \in StrUpTo(MaxRawLen)
    /\ text_lines = <<>>
    /\ line_no = 0
    /\ text_matches = <<>>
    /\ match_no = 0
    /\ current_color = "0"
    /\ texts = <<>>
    /\ error = <<>>
    /\ ppc = "start"
    /\ DiffIdle

ParseNext ==
    \/ ParseStart
    \/ LineRaise
    \/ LineStart
    \/ MatchStep
    \/ LineEnd
    \/ ParseReturn

SpecParse == ParseInit /\ [][ParseNext]_vars

\* ------------------------------------------------------------------------
\* format_text and the rows of the table
\* ------------------------------------------------------------------------
NoStyle == ""

OpenTag(style) ==
    CASE style = "yellow" -> "[yellow]"
      [] style = "red bold" -> "[red bold]"
      [] style = "green bold" -> "[green bold]"

CloseTag(style) ==
    CASE style = "yellow" -> "[/yellow]"
      [] style = "red bold" -> "[/red bold]"
      [] style = "green bold" -> "[/green bold]"

\* The rendered cell: a string in which a markup tag is one element.
format_text(text, style, is_color_all) ==
    IF text.color = "ENDLINE"
    THEN IF style # NoStyle
         THEN <<OpenTag(style)>> \o text.content \o <<CloseTag(style)>>
         ELSE text.content
    ELSE LET color_as_str == <<"§", text.color>>
             content_as_str == text.content
         IN  IF style # NoStyle
             THEN IF is_color_all
                  THEN <<OpenTag(style)>> \o color_as_str \o content_as_str
                       \o <<CloseTag(style)>>
                  ELSE <<OpenTag(style)>> \o color_as_str \o <<CloseTag(style)>>
                       \o content_as_str
             ELSE color_as_str \o content_as_str

\* table.add_row(original, translation)
add_row(t, original, translation) ==
    Append(t, [en |-> original, tr |-> translation])

\* ------------------------------------------------------------------------
\* get_diff
\* ------------------------------------------------------------------------
en == en_article[en_index + 1]
tr == translation_article[tr_index + 1]

InMainLoop ==
    tr_index < Len(translation_article) /\ en_index < Len(en_article)

\* Variant: the translation cursor is not advanced with the original's.
BothNormal_EnOnly ==
    /\ dpc = "walk"
    /\ InMainLoop
    /\ en.color = "0" /\ tr.color = "0"
    /\ table' = add_row(table, format_text(en, NoStyle, TRUE),
                               format_text(tr, NoStyle, TRUE))
    /\ en_index' = en_index + 1
    /\ UNCHANGED <<en_raw, translation_raw, en_article, translation_article,
                   tr_index, success, dpc>>
    /\ UNCHANGED pvars

\* Both are normal text and accepted.
BothNormal ==
    /\ dpc = "walk"
    /\ InMainLoop
    /\ en.color = "0" /\ tr.color = "0"
    /\ table' = add_row(table, format_text(en, NoStyle, TRUE),
                               format_text(tr, NoStyle, TRUE))
    /\ en_index' = en_index + 1
    /\ tr_index' = tr_index + 1
    /\ UNCHANGED <<en_raw, translation_raw, en_article, translation_article,
                   success, dpc>>
    /\ UNCHANGED pvars

\* en() is normal text, tr() is not.
EnNormal ==
    /\ dpc = "walk"
    /\ InMainLoop
    /\ en.color = "0" /\ tr.color # "0"
    /\ table' = add_row(table, format_text(en, "yellow", TRUE), <<>>)
    /\ en_index' = en_index + 1
    /\ UNCHANGED <<en_raw, translation_raw, en_article, translation_article,
                   tr_index, success, dpc>>
    /\ UNCHANGED pvars

\* en() is not normal text, tr() is normal text.
TrNormal ==
    /\ dpc = "walk"
    /\ InMainLoop
    /\ en.color # "0" /\ tr.color = "0"
    /\ table' = add_row(table, <<>>, format_text(tr, "yellow", TRUE))
    /\ tr_index' = tr_index + 1
    /\ UNCHANGED <<en_raw, translation_raw, en_article, translation_article,
                   en_index, success, dpc>>
    /\ UNCHANGED pvars

\* Variant: the differing pair is rendered as a mismatch but the verdict
\* is left alone.
BothStyled_NoFail ==
    /\ dpc = "walk"
    /\ InMainLoop
    /\ en.color # "0" /\ tr.color # "0"
    /\ IF en.color = tr.color
       THEN table' = add_row(table, format_text(en, NoStyle, TRUE),
                                    format_text(tr, NoStyle, TRUE))
       ELSE table' = add_row(table, format_text(en, "red bold", FALSE),
                                    format_text(tr, "green bold", FALSE))
    /\ success' = success
    /\ en_index' = en_index + 1
    /\ tr_index' = tr_index + 1
    /\ UNCHANGED <<en_raw, translation_raw, en_article, translation_article, dpc>>
    /\ UNCHANGED pvars

\* Both are not normal text.
BothStyled ==
    /\ dpc = "walk"
    /\ InMainLoop
    /\ en.color # "0" /\ tr.color # "0"
    /\ IF en.color = tr.color
       THEN /\ table' = add_row(table, format_text(en, NoStyle, TRUE),
                                       format_text(tr, NoStyle, TRUE))
            /\ success' = success
       ELSE /\ table' = add_row(table, format_text(en, "red bold", FALSE),
                                       format_text(tr, "green bold", FALSE))
            /\ success' = FALSE
    /\ en_index' = en_index + 1
    /\ tr_index' = tr_index + 1
    /\ UNCHANGED <<en_raw, translation_raw, en_article, translation_article, dpc>>
    /\ UNCHANGED pvars

\* `while tr_index < len(translation_article.texts)`
DrainTr ==
    /\ dpc = "walk"
    /\ ~InMainLoop
    /\ tr_index < Len(translation_article)
    /\ IF tr.color = "0"
       THEN /\ table' = add_row(table, <<>>, format_text(tr, "yellow", TRUE))
            /\ success' = success
       ELSE /\ table' = add_row(table, <<>>, format_text(tr, "red bold", FALSE))
            /\ success' = FALSE
    /\ tr_index' = tr_index + 1
    /\ UNCHANGED <<en_raw, translation_raw, en_article, translation_article,
                   en_index, dpc>>
    /\ UNCHANGED pvars

\* Variant: a styled remainder of the original does not fail the verdict.
DrainEn_NoFail ==
    /\ dpc = "walk"
    /\ ~InMainLoop
    /\ ~(tr_index < Len(translation_article))
    /\ en_index < Len(en_article)
    /\ IF en.color = "0"
       THEN table' = add_row(table, format_text(en, "yellow", TRUE), <<>>)
       ELSE table' = add_row(table, format_text(en, "red bold", FALSE), <<>>)
    /\ success' = success
    /\ en_index' = en_index + 1
    /\ UNCHANGED <<en_raw, translation_raw, en_article, translation_article,
                   tr_index, dpc>>
    /\ UNCHANGED pvars

\* `while en_index < len(en_article.texts)`
DrainEn ==
    /\ dpc = "walk"
    /\ ~InMainLoop
    /\ ~(tr_index < Len(translation_article))
    /\ en_index < Len(en_article)
    /\ IF en.color = "0"
       THEN /\ table' = add_row(table, format_text(en, "yellow", TRUE), <<>>)
            /\ success' = success
       ELSE /\ table' = add_row(table, format_text(en, "red bold", FALSE), <<>>)
            /\ success' = FALSE
    /\ en_index' = en_index + 1
    /\ UNCHANGED <<en_raw, translation_raw, en_article, translation_article,
                   tr_index, dpc>>
    /\ UNCHANGED pvars

\* Variant: return as soon as the main loop ends, the drain loops left out.
DiffReturn_Early ==
    /\ dpc = "walk"
    /\ ~InMainLoop
    /\ dpc' = "done"
    /\ UNCHANGED <<en_raw, translation_raw, en_article, translation_article,
                   en_index, tr_index, success, table>>
    /\ UNCHANGED pvars

\* `return success, table`
DiffReturn ==
    /\ dpc = "walk"
    /\ ~(tr_index < Len(translation_article))
    /\ ~(en_index < Len(en_article))
    /\ dpc' = "done"
    /\ UNCHANGED <<en_raw, translation_raw, en_article, translation_article,
                   en_index, tr_index, success, table>>
    /\ UNCHANGED pvars

\* Entries the compared articles are built from: plain text, two colours
\* and the line-break sentinel.
Entries ==
    { TextEntry("0", <<"x">>), TextEntry("a", <<"x">>),
      TextEntry("b", <<"y">>), TextEntry("ENDLINE", <<"%", "n">>) }

RECURSIVE ArticlesUpTo(_)
ArticlesUpTo(n) ==
    IF n = 0 THEN {<<>>}
    ELSE ArticlesUpTo(n - 1) \cup [1..n -> Entries]

\* get_diff entered with two articles: locals as lines 137-144 leave them.
DiffInit ==
    /\ ParserIdle
    /\ en_raw = <<>>
    /\ translation_raw = <<>>
    /\ en_article \in ArticlesUpTo(MaxArticleLen)
    /\ translation_article \in ArticlesUpTo(MaxArticleLen)
    /\ en_index = 0
    /\ tr_index = 0
    /\ success = TRUE
    /\ table = <<>>
    /\ dpc = "walk"

DiffNext ==
    \/ BothNormal
    \/ EnNormal
    \/ TrNormal
    \/ BothStyled
    \/ DrainTr
    \/ DrainEn
    \/ DiffReturn

SpecDiff == DiffInit /\ [][DiffNext]_vars

\* get_diff is straight-line synchronous code: a loop iteration that can run
\* does run.
FairSpecDiff == DiffInit /\ [][DiffNext]_vars /\ WF_vars(DiffNext)

\* ------------------------------------------------------------------------
\* main(): parse both raw strings, then get_diff
\* ------------------------------------------------------------------------
MainParse ==
    /\ dpc = "parse"
    /\ LET e == parse_questbook_string(en_raw)
           t == parse_questbook_string(translation_raw)
       IN  IF e.raised \/ t.raised
           THEN /\ dpc' = "raised"
                /\ UNCHANGED <<en_article, translation_article>>
           ELSE /\ dpc' = "walk"
                /\ en_article' = e.texts
                /\ translation_article' = t.texts
    /\ en_index' = 0
    /\ tr_index' = 0
    /\ success' = TRUE
    /\ table' = <<>>
    /\ UNCHANGED <<en_raw, translation_raw>>
    /\ UNCHANGED pvars

\* One raw string is the other with plain text added at its end or at its
\* start, on either side.
MainInit ==
    /\ ParserIdle
    /\ \E base \in StrUpTo(MaxBaseLen), plain \in PlainUpTo(MaxPlainLen) :
          \/ en_raw = base /\ translation_raw = base \o plain
          \/ en_raw = base \o plain /\ translation_raw = base
          \/ en_raw = base /\ translation_raw = plain \o base
          \/ en_raw = plain \o base /\ translation_raw = base
    /\ en_article = <<>>
    /\ translation_article = <<>>
    /\ en_index = 0
    /\ tr_index = 0
    /\ success = TRUE
    /\ table = <<>>
    /\ dpc = "parse"

MainNext ==
    \/ MainParse
    \/ BothNormal
    \/ EnNormal
    \/ TrNormal
    \/ BothStyled
    \/ DrainTr
    \/ DrainEn
    \/ DiffReturn

SpecMain == MainInit /\ [][MainNext]_vars

\* ------------------------------------------------------------------------
\* Vocabulary of the properties
\* ------------------------------------------------------------------------
IsSentinel(e) == e.color = "ENDLINE"
Ignorable(e) == e.color = "0"
Significant(e) == e.color # "0"

SixteenColors ==
    {"0", "1", "2", "3", "4", "5", "6", "7", "8", "9",
     "a", "b", "c", "d", "e", "f"}

StartsWith(cell, tags) == cell # <<>> /\ cell[1] \in tags

\* Classification of a row, read off the rendered cells.
RowKind(row) ==
    IF StartsWith(row.en, {"[red bold]", "[green bold]"})
       \/ StartsWith(row.tr, {"[red bold]", "[green bold]"})
    THEN "Mismatch"
    ELSE IF StartsWith(row.en, {"[yellow]"}) \/ StartsWith(row.tr, {"[yellow]"})
         THEN "SkippedUnformatted"
         ELSE "Matched"

Kinds(t) == [i \in DOMAIN t |-> RowKind(t[i])]

IsSig(e) == Significant(e)
SigColors(article) ==
    LET sig == SelectSeq(article, IsSig)
    IN  [i \in DOMAIN sig |-> sig[i].color]

\* ------------------------------------------------------------------------
\* C1: at a main-loop position where both entries are significant, the step
\* adds one row and advances both cursors by exactly one; the row is
\* Mismatch and success becomes false when the colours differ, Matched with
\* success untouched when they are equal. A Mismatch row means the verdict is
\* false, and [a] against [b] ends with exactly one row, a Mismatch.
\* ------------------------------------------------------------------------
C1_Step ==
    (dpc = "walk" /\ InMainLoop /\ Significant(en) /\ Significant(tr))
    => /\ en_index' = en_index + 1
       /\ tr_index' = tr_index + 1
       /\ Len(table') = Len(table) + 1
       /\ SubSeq(table', 1, Len(table)) = table
       /\ IF en.color # tr.color
          THEN RowKind(table'[Len(table')]) = "Mismatch" /\ success' = FALSE
          ELSE RowKind(table'[Len(table')]) = "Matched" /\ success' = success

C1_Verdict ==
    /\ (\E i \in DOMAIN table : RowKind(table[i]) = "Mismatch") => ~success
    /\ ( /\ dpc = "done"
         /\ en_article = <<TextEntry("a", <<"x">>)>>
         /\ translation_article = <<TextEntry("b", <<"y">>)>> )
       => ~success /\ Kinds(table) = <<"Mismatch">>

C1_Theorem == [][C1_Step]_vars /\ []C1_Verdict

\* A sentinel faced a styled run in the main loop: one Mismatch row, both
\* cursors moved, and the walk goes on behind it.
C1_Witness ==
    /\ dpc = "walk"
    /\ en_index = 1 /\ tr_index = 1
    /\ IsSentinel(en_article[1]) /\ translation_article[1].color = "a"
    /\ Kinds(table) = <<"Mismatch">>
    /\ ~success
    /\ InMainLoop

\* ------------------------------------------------------------------------
\* C3: an article compared with itself: success, and every row is Matched
\* (so neither drain loop emits a row).
\* ------------------------------------------------------------------------
C3_Theorem ==
    (dpc \in {"walk", "done"} /\ en_article = translation_article)
    => /\ success
       /\ \A i \in DOMAIN table : RowKind(table[i]) = "Matched"
       /\ en_index = tr_index
       /\ (dpc = "done" => Len(table) = Len(en_article))

C3_Witness ==
    /\ dpc = "done"
    /\ en_article = translation_article
    /\ Len(en_article) = MaxArticleLen
    /\ \E i \in DOMAIN en_article : Ignorable(en_article[i])
    /\ \E i \in DOMAIN en_article : IsSentinel(en_article[i])
    /\ \E i \in DOMAIN en_article : en_article[i].color = "a"

\* ------------------------------------------------------------------------
\* C8: the walk terminates: it returns, every state of the walk has a step
\* to take, every loop step adds one row and moves at least one cursor
\* forward, no cursor moves back or passes its length, so the rows number at
\* most len(A) + len(B); on return both cursors equal the lengths.
\* ------------------------------------------------------------------------
C8_Inv ==
    (dpc \in {"walk", "done"})
    => /\ en_index \in 0..Len(en_article)
       /\ tr_index \in 0..Len(translation_article)
       /\ Len(table) <= en_index + tr_index
       /\ Len(table) <= Len(en_article) + Len(translation_article)
       /\ (dpc = "walk" => ENABLED DiffNext)
       /\ (dpc = "done" => /\ en_index = Len(en_article)
                           /\ tr_index = Len(translation_article))

C8_Step ==
    (dpc = "walk")
    => /\ en_index' >= en_index
       /\ tr_index' >= tr_index
       /\ \/ /\ dpc' = "walk"
             /\ en_index' + tr_index' > en_index + tr_index
             /\ Len(table') = Len(table) + 1
          \/ /\ dpc' = "done"
             /\ en_index' = en_index /\ tr_index' = tr_index
             /\ table' = table

C8_Theorem == []C8_Inv /\ [][C8_Step]_vars /\ <>(dpc = "done")

\* The longest walk: no pair was consumed together, so the table has
\* len(A) + len(B) rows.
C8_Witness ==
    /\ dpc = "done"
    /\ Len(en_article) = MaxArticleLen
    /\ Len(translation_article) = MaxArticleLen
    /\ Len(table) = Len(en_article) + Len(translation_article)

\* ------------------------------------------------------------------------
\* C10: the verdict is true exactly when the two articles have the same
\* sequence of significant colours; ignorable entries do not count. (The
\* right-hand side is symmetric in the two articles, hence so is the verdict.)
\* ------------------------------------------------------------------------
C10_Theorem ==
    (dpc = "done")
    => (success <=> SigColors(en_article) = SigColors(translation_article))

\* Same significant colours, different layout of the ignorable entries.
C10_Witness ==
    /\ dpc = "done"
    /\ success
    /\ SigColors(en_article) = <<"a", "ENDLINE">>
    /\ Len(en_article) = 2
    /\ Len(translation_article) = 3
    /\ Ignorable(translation_article[2])

\* ------------------------------------------------------------------------
\* Vocabulary of the parser properties
\* ------------------------------------------------------------------------
NumSentinels(ts) == Cardinality({i \in DOMAIN ts : IsSentinel(ts[i])})

\* The runs of the line being scanned: the entries behind the last sentinel
\* (all of them when no sentinel was appended, texts being empty then).
LastSentinel(ts) ==
    LET S == {i \in DOMAIN ts : IsSentinel(ts[i])}
    IN  IF S = {} THEN 0 ELSE CHOOSE i \in S : \A j \in S : j <= i

LineRuns(ts) == SubSeq(ts, LastSentinel(ts) + 1, Len(ts))

RECURSIVE ConcatContents(_, _)
ConcatContents(ts, k) ==
    IF k > Len(ts) THEN <<>>
    ELSE ts[k].content \o ConcatContents(ts, k + 1)

\* A line with its style escapes removed: each § together with the valid
\* code that follows it, and a § that no code follows.
RECURSIVE StripEscapesFrom(_, _)
StripEscapesFrom(l, i) ==
    IF i > Len(l) THEN <<>>
    ELSE IF l[i] = "§"
         THEN IF i < Len(l) /\ InStyleCodes(l[i + 1])
              THEN StripEscapesFrom(l, i + 2)
              ELSE StripEscapesFrom(l, i + 1)
         ELSE <<l[i]>> \o StripEscapesFrom(l, i + 1)

StripEscapes(l) == StripEscapesFrom(l, 1)

\* The raw string holds a lead character followed by a character outside
\* its alphabet; escapes are read left to right, two characters each.
RECURSIVE HasInvalidEscapeFrom(_, _)
HasInvalidEscapeFrom(raw, i) ==
    IF i >= Len(raw) THEN FALSE
    ELSE IF raw[i] = "%"
         THEN IF raw[i + 1] \in {"n", "%"}
              THEN HasInvalidEscapeFrom(raw, i + 2)
              ELSE TRUE
         ELSE IF raw[i] = "§"
              THEN IF InStyleCodes(raw[i + 1])
                   THEN HasInvalidEscapeFrom(raw, i + 2)
                   ELSE TRUE
              ELSE HasInvalidEscapeFrom(raw, i + 1)

HasInvalidEscape(raw) == HasInvalidEscapeFrom(raw, 1)

\* The colour in force at position p of a line: the code of the last colour
\* escape that ends before p, "0" after a reset or when there is none.
LastColorBefore(l, p) ==
    LET Q == {q \in 1..(p - 2) : l[q] = "§" /\ l[q + 1] \in ColorClass}
    IN  IF Q = {} THEN "0"
        ELSE LET q == CHOOSE x \in Q : \A y \in Q : y <= x
             IN  IF l[q + 1] = "r" THEN "0" ELSE l[q + 1]

\* ------------------------------------------------------------------------
\* C4: a parse that returns holds exactly k sentinels, k + 1 being the
\* number of lines the input splits into.
\* ------------------------------------------------------------------------
C4_Claim ==
    (ppc = "done") => NumSentinels(texts) = Len(text_lines) - 1

\* ------------------------------------------------------------------------
\* C5: in the article parse returns, a sentinel is never the first entry,
\* never the last entry and never next to another sentinel.
\* ------------------------------------------------------------------------
C5_Original ==
    (ppc = "done")
    => \A i \in DOMAIN texts :
          IsSentinel(texts[i])
          => /\ i # 1
             /\ i # Len(texts)
             /\ (i < Len(texts) => ~IsSentinel(texts[i + 1]))

\* C5 as amended: a sentinel is never the first entry of the article (it may
\* be the last entry, and two sentinels may be adjacent).
C5_Theorem ==
    (texts # <<>>) => ~IsSentinel(texts[1])

\* The input starts with an empty line and the article still got a sentinel.
C5_Witness ==
    /\ ppc = "done"
    /\ Len(text_lines) >= 2
    /\ text_lines[1] = <<>>
    /\ NumSentinels(texts) >= 1

\* ------------------------------------------------------------------------
\* C6: every run's content is non-empty, and the contents of the runs of a
\* line, concatenated, are the line with its style escapes removed (modifier
\* escapes included).
\* ------------------------------------------------------------------------
C6_Claim ==
    /\ \A i \in DOMAIN texts : ~IsSentinel(texts[i]) => texts[i].content # <<>>
    /\ (ppc = "match" /\ match_no > Len(text_matches))
       => ConcatContents(LineRuns(texts), 1) = StripEscapes(line)

\* ------------------------------------------------------------------------
\* C7: parse raises, returning nothing, exactly for the inputs that hold an
\* invalid escape (% not followed by n or %, § not followed by a valid code).
\* ------------------------------------------------------------------------
C7_Claim ==
    (ppc \in {"done", "raised"})
    => /\ (ppc = "raised") <=> HasInvalidEscape(raw_article)
       /\ (ppc = "raised" => texts = <<>>)

\* ------------------------------------------------------------------------
\* C9: every run's colour is one of the 16 colour codes, and a run is
\* appended with the colour of the last colour escape before it in its own
\* line ("0" after a reset, or when the line has none before it).
\* ------------------------------------------------------------------------
C9_Colors ==
    \A i \in DOMAIN texts :
        ~IsSentinel(texts[i]) => texts[i].color \in SixteenColors

C9_Step ==
    (ppc = "match" /\ match_no <= Len(text_matches) /\ match.g1 # <<>>)
    => /\ Len(texts') = Len(texts) + 1
       /\ SubSeq(texts', 1, Len(texts)) = texts
       /\ texts'[Len(texts')].content = match.g1
       /\ texts'[Len(texts')].color = LastColorBefore(line, match.start)

C9_Theorem == []C9_Colors /\ [][C9_Step]_vars

\* A plain run on the line after a line that ended in colour a.
C9_Witness ==
    /\ ppc = "done"
    /\ Len(text_lines) = 2
    /\ text_lines[1] = <<"§", "a">>
    /\ Len(texts) = 1
    /\ texts[1].color = "0"

\* ------------------------------------------------------------------------
\* C2: when both texts parse and one is the other with plain text appended,
\* the comparison succeeds and no row is a Mismatch.
\* ------------------------------------------------------------------------
\* long is short with plain text appended.
Appended(short, long) ==
    /\ Len(long) > Len(short)
    /\ SubSeq(long, 1, Len(short)) = short
    /\ \A i \in (Len(short) + 1)..Len(long) : long[i] \in PlainChars

AppendPair ==
    Appended(en_raw, translation_raw) \/ Appended(translation_raw, en_raw)

Base ==
    IF Len(en_raw) <= Len(translation_raw) THEN en_raw ELSE translation_raw

EndsInLead(b) == b # <<>> /\ b[Len(b)] \in {"%", "§"}

EndsInColorEscape(b) ==
    /\ Len(b) >= 2
    /\ b[Len(b) - 1] = "§"
    /\ b[Len(b)] \in SixteenColors \ {"0"}

C2_Original ==
    (dpc = "done" /\ AppendPair)
    => /\ success
       /\ \A i \in DOMAIN table :
             RowKind(table[i]) \in {"Matched", "SkippedUnformatted"}

\* C2 as amended: the same, for a base text that does not end in %, in §, or
\* in a colour escape §1-§9, §a-§f; the appended text then adds at most one
\* row, the last one, classified SkippedUnformatted.
C2_Theorem ==
    (dpc = "done" /\ AppendPair /\ ~EndsInLead(Base) /\ ~EndsInColorEscape(Base))
    => /\ success
       /\ \A i \in DOMAIN table :
             \/ RowKind(table[i]) = "Matched"
             \/ i = Len(table) /\ RowKind(table[i]) = "SkippedUnformatted"
       /\ Len(table) = IF Len(en_article) >= Len(translation_article)
                       THEN Len(en_article) ELSE Len(translation_article)

\* The appended text became a run of its own behind a line break.
C2_Witness ==
    /\ dpc = "done"
    /\ AppendPair
    /\ ~EndsInLead(Base) /\ ~EndsInColorEscape(Base)
    /\ success
    /\ Len(table) = 3
    /\ IsSentinel(en_article[2])
    /\ RowKind(table[3]) = "SkippedUnformatted"

====
